---- MODULE Spec2Model ----
(***************************************************************************)
(* Model of actioncable/subscription.py: one Subscription object attached  *)
(* to a Connection.  Every public method is one action; the frames handed  *)
(* to connection.send, the callbacks invoked and an exception leaving the  *)
(* method are recorded, in program order, in `trace`, each entry stamped   *)
(* with the value self.state had at that moment.                           *)
(***************************************************************************)
EXTENDS Naturals, Sequences, FiniteSets, TLC

VARIABLES
    uuid,              \* self.uuid (NoObject before __init__ has run)
    identifier,        \* self.identifier
    on_event,          \* self.on_event
    receive_callback,  \* self.receive_callback
    state,             \* self.state
    message_queue,     \* self.message_queue
    connected,         \* connection.connected
    subscriptions,     \* connection.subscriptions
    op,                \* the last step: a method call, or the transport changing
    trace,             \* what that call did, in program order
    flushed            \* how many leading entries of message_queue a flush has
                       \* already handed to connection.send

vars == <<uuid, identifier, on_event, receive_callback, state, message_queue,
          connected, subscriptions, op, trace, flushed>>

(* ------------------------------ bounds --------------------------------- *)

\* longest message queue the model lets send() build
MaxQueue == 3

\* iterations of the flush loop the model follows before it records that the
\* loop is still running
MaxFlush == 8

(* ------------------------------ values --------------------------------- *)

\* Python's None, also the value of a field of an object not yet constructed
NoneValue == "None"

\* marks the fields of the Subscription before __init__ has run
NoObject == "<no object>"

\* a callable passed as on_event or to on_receive; it does not touch the
\* subscription
Callback == "callback"

\* callables passed as on_event that, when told 'subscribed', call send(),
\* create() or remove() on the subscription before they return
CallbackSends == "callback: send"
CallbackCreates == "callback: create"
CallbackRemoves == "callback: remove"

\* what the caller can pass as on_event
OnEventArgs ==
    {NoneValue, Callback, CallbackSends, CallbackCreates, CallbackRemoves}

\* a dict key that is not present ('type' in data is False)
Absent == "<absent>"

\* values uuid.uuid1() can return
UUIDs == {"uuid-1", "uuid-2"}

\* identifiers the caller can pass: dicts, as their items in insertion order
Identifiers ==
    { <<<<"channel", "ChatChannel">>, <<"room", "1">>>>,
      <<<<"room", "1">>, <<"channel", "ChatChannel">>>> }

\* the Message object the CallbackSends callback passes to send()
CallbackMessage == "m3"

\* the Message objects of the model
Messages == {"m1", "m2", CallbackMessage}

\* everything the application passes to send() outside a callback: Message
\* objects, and None
SendArgs == {"m1", "m2", NoneValue}

\* values of the 'type' key of an inbound frame
FrameTypes == {Absent, "confirm_subscription", "reject_subscription", "ping"}

\* values of the 'message' key of an inbound frame
FramePayloads == {Absent, "p1"}

\* the frame slot of a trace entry that is not a connection.send
NoFrame == [command |-> "", identifier |-> "", data |-> Absent]

(* --------------------------- pure helpers ------------------------------ *)

\* json.dumps of a str: the text between double quotes
json_str(s) == "\"" \o s \o "\""

\* json.dumps of the items of a dict from position i on, ", " between items
RECURSIVE json_items(_, _)
json_items(d, i) ==
    IF i > Len(d) THEN ""
    ELSE json_str(d[i][1]) \o ": " \o json_str(d[i][2])
         \o (IF i < Len(d) THEN ", " ELSE "")
         \o json_items(d, i + 1)

\* json.dumps(d, sort_keys=True) for the dicts of the model
json_dumps_sort_keys(d) ==
    LET sorted == IF Len(d) = 2 /\ d[1][1] = "room" /\ d[2][1] = "channel"
                  THEN <<d[2], d[1]>>
                  ELSE d
    IN  "{" \o json_items(sorted, 1) \o "}"

\* json.dumps of a dict with the default separators, keys in insertion order
json_dumps(d) == "{" \o json_items(d, 1) \o "}"

\* message.raw_message(): the payload of a Message object
raw_message(message) == "raw(" \o message \o ")"

(* ------------------- the object while a method runs -------------------- *)

\* self at the entry of a method: the two fields methods assign, and an
\* empty record of effects
Self == [state |-> state, message_queue |-> message_queue, trace |-> <<>>]

\* one effect, appended to the record with the state at that moment
Emit(s, kind, frame, arg) ==
    [s EXCEPT !.trace = Append(@, [kind |-> kind, frame |-> frame,
                                   arg |-> arg, state |-> s.state])]

\* an exception is propagating out of the method
Raised(s) == \E i \in 1..Len(s.trace) : s.trace[i].kind = "raise"

\* self.connection.send(data)
connection_send(s, data) == Emit(s, "connection.send", data, "")

\* Subscription._identifier_string
_identifier_string == json_dumps(identifier)

\* Subscription._on_event(event, data=None), defined after the methods the
\* callback can call
RECURSIVE _on_event(_, _)

\* _set_state() that reports the event before it assigns the field
_set_state_notifies_first(s, newstate) ==
    [_on_event(s, newstate) EXCEPT !.state = newstate]

\* Subscription._set_state(state)
_set_state(s, newstate) == _on_event([s EXCEPT !.state = newstate], newstate)

\* send() with the queue grown at its head
send_prepends(s, message) ==
    IF s.state = "pending" \/ s.state = "connection_pending"
    THEN [s EXCEPT !.message_queue = <<message>> \o @]
    ELSE IF s.state = "unsubscribed" \/ s.state = "rejected"
    THEN s
    ELSE IF message \notin Messages
    THEN Emit(s, "raise", NoFrame, "AttributeError")
    ELSE connection_send(s, [command    |-> "message",
                             identifier |-> _identifier_string,
                             data       |-> raw_message(message)])

\* send() with the discard branch testing 'rejected' only
send_discards_rejected_only(s, message) ==
    IF s.state = "pending" \/ s.state = "connection_pending"
    THEN [s EXCEPT !.message_queue = Append(@, message)]
    ELSE IF s.state = "rejected"
    THEN s
    ELSE IF message \notin Messages
    THEN Emit(s, "raise", NoFrame, "AttributeError")
    ELSE connection_send(s, [command    |-> "message",
                             identifier |-> _identifier_string,
                             data       |-> raw_message(message)])

\* Subscription.send(message)
send(s, message) ==
    IF s.state = "pending" \/ s.state = "connection_pending"
    THEN [s EXCEPT !.message_queue = Append(@, message)]
    ELSE IF s.state = "unsubscribed" \/ s.state = "rejected"
    THEN s
    ELSE IF message \notin Messages
    THEN Emit(s, "raise", NoFrame, "AttributeError")
    ELSE connection_send(s, [command    |-> "message",
                             identifier |-> _identifier_string,
                             data       |-> raw_message(message)])

\* the loop `for message in self.message_queue: self.send(message)`, at
\* list index i (1-based); an exception in send() ends it
\* (the list is read at each iteration, so entries appended meanwhile are
\* iterated too); after MaxFlush iterations with entries left the model stops
\* following the loop and records that it is still running
RECURSIVE flush(_, _)
flush(s, i) ==
    IF Raised(s) \/ i > Len(s.message_queue) THEN s
    ELSE IF i > MaxFlush THEN Emit(s, "unfinished", NoFrame, "")
    ELSE flush(send(s, s.message_queue[i]), i + 1)

\* _subscribed() with the flush starting one element late
_subscribed_skips_first(s) == flush(_set_state(s, "subscribed"), 2)

\* Subscription._subscribed
_subscribed(s) == flush(_set_state(s, "subscribed"), 1)

\* _rejected() without the reset of the queue
_rejected_keeps_queue(s) == _set_state(s, "rejected")

\* Subscription._rejected
_rejected(s) == [_set_state(s, "rejected") EXCEPT !.message_queue = <<>>]

\* create() without the check of connection.connected
create_unconditional(s) ==
    _set_state(connection_send(s, [command    |-> "subscribe",
                                   identifier |-> _identifier_string,
                                   data       |-> Absent]),
               "pending")

\* create() that never hands the subscribe frame to the connection
create_without_frame(s) ==
    IF ~connected
    THEN [s EXCEPT !.state = "connection_pending"]
    ELSE _set_state(s, "pending")

\* Subscription.create
create(s) ==
    IF ~connected
    THEN [s EXCEPT !.state = "connection_pending"]
    ELSE _set_state(connection_send(s, [command    |-> "subscribe",
                                        identifier |-> _identifier_string,
                                        data       |-> Absent]),
                    "pending")

\* remove() that talks to the server only while the transport is up
remove_when_connected(s) ==
    IF ~connected
    THEN _set_state(s, "unsubscribed")
    ELSE _set_state(connection_send(s, [command    |-> "unsubscribe",
                                        identifier |-> _identifier_string,
                                        data       |-> Absent]),
                    "unsubscribed")

\* remove() that also drops the queued messages
remove_clears_queue(s) ==
    [_set_state(connection_send(s, [command    |-> "unsubscribe",
                                    identifier |-> _identifier_string,
                                    data       |-> Absent]),
                "unsubscribed")
     EXCEPT !.message_queue = <<>>]

\* Subscription.remove
remove(s) ==
    _set_state(connection_send(s, [command    |-> "unsubscribe",
                                   identifier |-> _identifier_string,
                                   data       |-> Absent]),
               "unsubscribed")

\* self.on_event(event, data): the owner's callback runs to its end inside
\* _on_event
_on_event(s, event) ==
    IF on_event = NoneValue THEN s
    ELSE LET called == Emit(s, "on_event", NoFrame, event)
         IN  IF event # "subscribed" THEN called
             ELSE IF on_event = CallbackSends THEN send(called, CallbackMessage)
             ELSE IF on_event = CallbackCreates THEN create(called)
             ELSE IF on_event = CallbackRemoves THEN remove(called)
             ELSE called

\* received() whose callback branch tests `or` instead of `and`
received_callback_or(s, type, message) ==
    IF type = "confirm_subscription" THEN _subscribed(s)
    ELSE IF type = "reject_subscription" THEN _rejected(s)
    ELSE IF receive_callback # NoneValue \/ message # Absent
    THEN Emit(s, "receive_callback", NoFrame, message)
    ELSE s

\* received() that takes every typed frame but a rejection for a confirmation
received_any_type_confirms(s, type, message) ==
    IF type # Absent /\ type # "reject_subscription" THEN _subscribed(s)
    ELSE IF type = "reject_subscription" THEN _rejected(s)
    ELSE IF receive_callback # NoneValue /\ message # Absent
    THEN Emit(s, "receive_callback", NoFrame, message)
    ELSE s

\* Subscription.received(data), data a dict with optional keys type, message
received(s, type, message) ==
    IF type = "confirm_subscription" THEN _subscribed(s)
    ELSE IF type = "reject_subscription" THEN _rejected(s)
    ELSE IF receive_callback # NoneValue /\ message # Absent
    THEN Emit(s, "receive_callback", NoFrame, message)
    ELSE s

(* ------------------------------ actions -------------------------------- *)

Constructed == uuid # NoObject

\* the last call is still inside its flush loop: it has not returned, and
\* nothing else runs on its thread
Hung == \E i \in 1..Len(trace) : trace[i].kind = "unfinished"

\* the object exists and no call on it is running
Callable == Constructed /\ ~Hung

\* the message frames a flush loop handed over in t (the CallbackSends
\* callback's own message is not one of the queue)
FlushFrames(t) ==
    SelectSeq(t, LAMBDA e : /\ e.kind = "connection.send"
                            /\ e.frame.command = "message"
                            /\ e.frame.data # raw_message(CallbackMessage))

\* the value of flushed after received(data) left self as r: a flush hands
\* over the entries from the head of the queue on, a rejection empties it
Flushed(r, type) ==
    IF type = "reject_subscription" THEN 0
    ELSE IF type = "confirm_subscription" /\ Len(FlushFrames(r.trace)) > flushed
    THEN Len(FlushFrames(r.trace))
    ELSE flushed

\* the step being taken: its name, its arguments, and the two fields methods
\* assign as they are when it starts
Call(name, args) ==
    [name |-> name, args |-> args, state0 |-> state, queue0 |-> message_queue]

\* a method returned (or raised) leaving self as r
Return(r, name, args) ==
    /\ state' = r.state
    /\ message_queue' = r.message_queue
    /\ trace' = r.trace
    /\ op' = Call(name, args)

Init ==
    /\ uuid = NoObject
    /\ identifier = NoObject
    /\ on_event = NoObject
    /\ receive_callback = NoObject
    /\ state = NoObject
    /\ message_queue = <<>>
    /\ connected \in BOOLEAN
    /\ subscriptions = <<>>
    /\ op = [name |-> "", args |-> <<>>, state0 |-> NoObject, queue0 |-> <<>>]
    /\ trace = <<>>
    /\ flushed = 0

\* Subscription(connection, identifier, on_event)
Construct(u, ident, cb) ==
    /\ ~Constructed
    /\ uuid' = u
    /\ identifier' = ident
    /\ on_event' = cb
    /\ receive_callback' = NoneValue
    /\ state' = "unsubcribed"
    /\ message_queue' = <<>>
    /\ subscriptions' = (u :> "self")
    /\ op' = Call("__init__", <<>>)
    /\ trace' = <<>>
    /\ flushed' = 0
    /\ UNCHANGED connected

\* subscription.create()
Create ==
    /\ Callable
    /\ Return(create(Self), "create", <<>>)
    /\ UNCHANGED <<uuid, identifier, on_event, receive_callback, connected,
                   subscriptions, flushed>>

\* remove() that also takes the subscription out of the registry
Remove_deregisters ==
    /\ Callable
    /\ Return(remove(Self), "remove", <<>>)
    /\ subscriptions' = <<>>
    /\ UNCHANGED <<uuid, identifier, on_event, receive_callback, connected,
                   flushed>>

\* subscription.remove()
Remove ==
    /\ Callable
    /\ Return(remove(Self), "remove", <<>>)
    /\ UNCHANGED <<uuid, identifier, on_event, receive_callback, connected,
                   subscriptions, flushed>>

\* subscription.send(message)
Send(message) ==
    /\ Callable
    /\ state \in {"pending", "connection_pending"}
          => Len(message_queue) < MaxQueue
    /\ Return(send(Self, message), "send", <<message>>)
    /\ UNCHANGED <<uuid, identifier, on_event, receive_callback, connected,
                   subscriptions, flushed>>

\* subscription.on_receive(callback)
OnReceive(callback) ==
    /\ Callable
    /\ receive_callback' = callback
    /\ op' = Call("on_receive", <<callback>>)
    /\ trace' = <<>>
    /\ UNCHANGED <<uuid, identifier, on_event, state, message_queue,
                   connected, subscriptions, flushed>>

\* subscription.received(data), called by the connection
Received(type, message) ==
    /\ Callable
    /\ Return(received(Self, type, message), "received", <<type, message>>)
    /\ flushed' = Flushed(received(Self, type, message), type)
    /\ UNCHANGED <<uuid, identifier, on_event, receive_callback, connected,
                   subscriptions>>

\* the transport comes up or goes down
SetConnected(b) ==
    /\ ~Hung
    /\ connected # b
    /\ connected' = b
    /\ op' = Call("connection", <<>>)
    /\ trace' = <<>>
    /\ UNCHANGED <<uuid, identifier, on_event, receive_callback, state,
                   message_queue, subscriptions, flushed>>

Next ==
    \/ \E u \in UUIDs, ident \in Identifiers, cb \in {NoneValue, Callback} :
          Construct(u, ident, cb)
    \/ Create
    \/ Remove
    \/ \E message \in SendArgs : Send(message)
    \/ \E callback \in {NoneValue, Callback} : OnReceive(callback)
    \/ \E type \in FrameTypes, message \in FramePayloads :
          Received(type, message)
    \/ \E b \in BOOLEAN : SetConnected(b)

\* the application's on_event callback, if any, only observes
Spec == Init /\ [][Next]_vars

\* the same steps, the on_event callback being any of OnEventArgs
NextReentrant ==
    \/ \E u \in UUIDs, ident \in Identifiers, cb \in OnEventArgs :
          Construct(u, ident, cb)
    \/ Create
    \/ Remove
    \/ \E message \in SendArgs : Send(message)
    \/ \E callback \in {NoneValue, Callback} : OnReceive(callback)
    \/ \E type \in FrameTypes, message \in FramePayloads :
          Received(type, message)
    \/ \E b \in BOOLEAN : SetConnected(b)

SpecReentrant == Init /\ [][NextReentrant]_vars

(* ------------------------- vocabulary of the claims -------------------- *)

\* the five documented values of the state field
DocumentedStates ==
    {"unsubscribed", "connection_pending", "pending", "subscribed", "rejected"}

\* the frames handed to connection.send by the last step, in order
SentFrames(t) ==
    LET sel == SelectSeq(t, LAMBDA e : e.kind = "connection.send")
    IN  [i \in 1..Len(sel) |-> sel[i].frame]

\* the positions of t where on_event(event, None) was invoked
Notifications(t, event) ==
    {i \in 1..Len(t) : t[i].kind = "on_event" /\ t[i].arg = event}

\* the JSON text of each identifier of the model, written out
IdentifierText(ident) ==
    IF ident[1][1] = "channel"
    THEN "{\"channel\": \"ChatChannel\", \"room\": \"1\"}"
    ELSE "{\"room\": \"1\", \"channel\": \"ChatChannel\"}"

\* the frame of each command for this subscription
SubscribeFrame ==
    [command |-> "subscribe", identifier |-> IdentifierText(identifier),
     data |-> Absent]

UnsubscribeFrame ==
    [command |-> "unsubscribe", identifier |-> IdentifierText(identifier),
     data |-> Absent]

MessageFrame(m) ==
    [command |-> "message", identifier |-> IdentifierText(identifier),
     data |-> raw_message(m)]

\* the last step was received() of a frame of this type
ReceivedType(type) == op.name = "received" /\ op.args[1] = type

(* -------------------------------- claims ------------------------------- *)

\* C1: a frame with command 'message' is handed to connection.send only
\* while the state is 'subscribed'.
C1_MessageOnlyWhileSubscribed ==
    \A i \in 1..Len(trace) :
        (trace[i].kind = "connection.send" /\ trace[i].frame.command = "message")
            => trace[i].state = "subscribed"

\* C2: confirm_subscription received while 'pending' with N queued messages
\* makes the state 'subscribed' and hands exactly N message frames to
\* connection.send, in enqueue order, each with its message's payload.
C2_ConfirmFlushesQueueInOrder ==
    ( /\ ReceivedType("confirm_subscription")
      /\ op.state0 = "pending"
      /\ \A i \in 1..Len(op.queue0) : op.queue0[i] \in Messages )
    => /\ state = "subscribed"
       /\ SentFrames(trace) =
              [i \in 1..Len(op.queue0) |-> MessageFrame(op.queue0[i])]

C2_Witness ==
    /\ ReceivedType("confirm_subscription")
    /\ op.state0 = "pending"
    /\ op.queue0 = <<"m2", "m1">>
    /\ state = "subscribed"
    /\ Len(SentFrames(trace)) = 2

\* C3: send(m) while 'pending' or 'connection_pending' appends m at the tail
\* of the queue, hands no frame to connection.send and keeps the state.
C3_SendWhilePendingQueues ==
    (op.name = "send" /\ op.state0 \in {"pending", "connection_pending"})
    => /\ message_queue = Append(op.queue0, op.args[1])
       /\ trace = <<>>
       /\ state = op.state0

C3_Witness ==
    /\ op.name = "send"
    /\ op.state0 = "connection_pending"
    /\ op.queue0 = <<"m1">>
    /\ message_queue = <<"m1", "m2">>

\* C4: send(m) while 'unsubscribed' or 'rejected' hands no frame to
\* connection.send, raises nothing, and keeps the queue and the state.
C4_SendWhileInactiveDiscards ==
    (op.name = "send" /\ op.state0 \in {"unsubscribed", "rejected"})
    => /\ trace = <<>>
       /\ message_queue = op.queue0
       /\ state = op.state0

C4_Witness ==
    /\ op.name = "send"
    /\ op.state0 = "unsubscribed"
    /\ op.queue0 # <<>>
    /\ message_queue = op.queue0
    /\ trace = <<>>

\* C5: from construction on the state field is one of the five documented
\* values, and right after construction it is 'unsubscribed'.
C5_StateIsDocumented ==
    Constructed => /\ state \in DocumentedStates
                   /\ op.name = "__init__" => state = "unsubscribed"

\* C6: reject_subscription received while 'pending' makes the state
\* 'rejected', empties the queue and sends no frame, and a send() that
\* follows produces no frame.
C6_RejectClearsQueue ==
    [][ /\ (ReceivedType("reject_subscription") /\ op.state0 = "pending")'
           => /\ state' = "rejected"
              /\ message_queue' = <<>>
              /\ SentFrames(trace') = <<>>
        /\ ( /\ ReceivedType("reject_subscription") /\ op.state0 = "pending"
             /\ op'.name = "send" )
           => SentFrames(trace') = <<>> ]_vars

C6_Witness ==
    /\ ReceivedType("reject_subscription")
    /\ op.state0 = "pending"
    /\ Len(op.queue0) >= 2
    /\ state = "rejected"
    /\ message_queue = <<>>

\* C7: create() while the connection is not established hands no frame to
\* connection.send and leaves the state 'connection_pending'.
C7_CreateWhileDisconnected ==
    (op.name = "create" /\ ~connected)
    => /\ SentFrames(trace) = <<>>
       /\ state = "connection_pending"

C7_Witness ==
    /\ op.name = "create"
    /\ ~connected
    /\ op.state0 = "subscribed"
    /\ state = "connection_pending"

\* C8: create() while the connection is established hands exactly one frame
\* to connection.send, the subscribe frame with the identifier string,
\* leaves the state 'pending' and does not touch the queue.
C8_CreateWhileConnected ==
    (op.name = "create" /\ connected)
    => /\ SentFrames(trace) = <<SubscribeFrame>>
       /\ state = "pending"
       /\ message_queue = op.queue0

C8_Witness ==
    /\ op.name = "create"
    /\ connected
    /\ op.state0 = "rejected"
    /\ state = "pending"
    /\ Len(SentFrames(trace)) = 1

\* C9: remove() from any state, connected or not, hands exactly one
\* unsubscribe frame to connection.send and leaves the state 'unsubscribed'.
C9_RemoveAlwaysUnsubscribes ==
    op.name = "remove"
    => /\ SentFrames(trace) = <<UnsubscribeFrame>>
       /\ state = "unsubscribed"

C9_Witness ==
    /\ op.name = "remove"
    /\ ~connected
    /\ op.state0 = "rejected"
    /\ state = "unsubscribed"
    /\ Len(SentFrames(trace)) = 1

\* C10: whenever create(), received() or remove() changes the state field
\* to s and an on_event callback is set, on_event(s, None) is invoked
\* exactly once.
C10_EveryTransitionNotifies ==
    ( /\ op.name \in {"create", "received", "remove"}
      /\ state # op.state0
      /\ on_event # NoneValue )
    => Cardinality(Notifications(trace, state)) = 1

\* the message frames handed to connection.send by the last step
MessageFrames(t) ==
    SelectSeq(t, LAMBDA e : e.kind = "connection.send"
                            /\ e.frame.command = "message")

\* the invocations of the inbound-message callback by the last step
ReceiveCalls(t) == SelectSeq(t, LAMBDA e : e.kind = "receive_callback")

\* the last step was received() of a frame that is neither a confirmation
\* nor a rejection
ReceivedOther ==
    /\ op.name = "received"
    /\ op.args[1] \notin {"confirm_subscription", "reject_subscription"}

\* C11: a confirm_subscription or reject_subscription frame received while
\* the state is unsubscribed, subscribed or rejected does not change the
\* state and triggers no flush.
C11_ControlFramesOnlyWhilePending ==
    ( /\ ReceivedType("confirm_subscription") \/ ReceivedType("reject_subscription")
      /\ op.state0 \in {"unsubscribed", "subscribed", "rejected"} )
    => /\ state = op.state0
       /\ SentFrames(trace) = <<>>

\* C12: once constructed, the subscription is registered in
\* connection.subscriptions under its uuid, as the only entry, and no step
\* changes the uuid or the registry.
C12_StaysRegistered ==
    [][ /\ Constructed' => /\ DOMAIN subscriptions' = {uuid'}
                           /\ subscriptions'[uuid'] = "self"
        /\ Constructed => /\ uuid' = uuid
                          /\ subscriptions' = subscriptions ]_vars

C12_Witness ==
    /\ op.name = "remove"
    /\ state = "unsubscribed"
    /\ uuid \in UUIDs
    /\ DOMAIN subscriptions = {uuid}

\* C13: for a frame that is neither a confirmation nor a rejection,
\* received() invokes the inbound-message callback exactly once, with the
\* frame's 'message' value, if a callback is registered and the frame has a
\* 'message' key, and invokes no callback otherwise.
C13_CallbackIffRegisteredAndMessage ==
    ReceivedOther
    => IF receive_callback # NoneValue /\ op.args[2] # Absent
       THEN /\ Len(ReceiveCalls(trace)) = 1
            /\ ReceiveCalls(trace)[1].arg = op.args[2]
       ELSE ReceiveCalls(trace) = <<>>

C13_Witness ==
    /\ ReceivedType("ping")
    /\ op.args[2] = "p1"
    /\ receive_callback = Callback
    /\ Len(ReceiveCalls(trace)) = 1

\* C14: received() of a frame that is neither a confirmation nor a
\* rejection leaves the state and the queue as they were, hands no frame to
\* connection.send, does not invoke on_event and raises nothing.
C14_OtherFramesTakeNoStateAction ==
    ReceivedOther
    => /\ state = op.state0
       /\ message_queue = op.queue0
       /\ \A i \in 1..Len(trace) : trace[i].kind = "receive_callback"

C14_Witness ==
    /\ ReceivedType("ping")
    /\ op.args[2] = Absent
    /\ op.state0 = "pending"
    /\ op.queue0 # <<>>
    /\ on_event = Callback
    /\ state = "pending"
    /\ trace = <<>>

\* C15: remove() leaves the message queue as it was.
C15_RemoveKeepsQueue ==
    op.name = "remove" => message_queue = op.queue0

C15_Witness ==
    /\ op.name = "remove"
    /\ op.state0 = "pending"
    /\ op.queue0 = <<"m1", "m2">>
    /\ message_queue = <<"m1", "m2">>

\* C16: the identifier of a subscription never changes, and every frame any
\* step hands to connection.send carries the same string for it: its JSON
\* text with the keys in the order the caller supplied.
C16_OneIdentifierString ==
    [][ Constructed
        => /\ identifier' = identifier
           /\ \A i \in 1..Len(SentFrames(trace')) :
                 SentFrames(trace')[i].identifier = IdentifierText(identifier) ]_vars

C16_Witness ==
    /\ Constructed
    /\ identifier[1][1] = "room"
    /\ ReceivedType("confirm_subscription")
    /\ Len(SentFrames(trace)) >= 2
    /\ \A i \in 1..Len(SentFrames(trace)) :
          SentFrames(trace)[i].identifier
              = "{\"room\": \"1\", \"channel\": \"ChatChannel\"}"

\* C17: no message is sent twice: a send() call hands over at most one
\* message frame, and a confirmation flush hands over no queue entry that an
\* earlier flush already handed over (every flush starts at the head of the
\* queue).
C17_NoDoubleSend ==
    [][ /\ op'.name = "send" => Len(MessageFrames(trace')) <= 1
        /\ (ReceivedType("confirm_subscription")' /\ flushed > 0)
              => FlushFrames(trace') = <<>> ]_vars

\* C18: message frames keep the order of the send() calls: a flush hands
\* the queued messages over in queue order, and the frame of a send() made
\* inside the on_event('subscribed') callback comes after the frames of the
\* messages that were queued before.
C18_FramesKeepSendOrder ==
    ReceivedType("confirm_subscription")
    => /\ \A k \in 1..Len(FlushFrames(trace)) :
             /\ k <= Len(op.queue0)
             /\ FlushFrames(trace)[k].frame.data = raw_message(op.queue0[k])
       /\ \A i, j \in 1..Len(MessageFrames(trace)) :
             ( /\ MessageFrames(trace)[i].frame.data = raw_message(CallbackMessage)
               /\ MessageFrames(trace)[j].frame.data # raw_message(CallbackMessage) )
             => j < i

\* C19: on_event(s, None) is invoked with the state field already equal to
\* s; for 'subscribed' it is invoked before the first flushed message frame;
\* create() (connected) and remove() hand their frame to connection.send
\* while the state still has its previous value, before the notification.
C19_StateSetBeforeNotification ==
    /\ \A i \in 1..Len(trace) :
          trace[i].kind = "on_event" => trace[i].state = trace[i].arg
    /\ ReceivedType("confirm_subscription")
          => \A i, j \in 1..Len(trace) :
                ( /\ trace[i].kind = "on_event"
                  /\ trace[j].kind = "connection.send" ) => i < j
    /\ op.name \in {"create", "remove"}
          => \A i, j \in 1..Len(trace) :
                trace[i].kind = "connection.send"
                => /\ trace[i].state = op.state0
                   /\ trace[j].kind = "on_event" => i < j

C19_Witness ==
    /\ ReceivedType("confirm_subscription")
    /\ on_event = Callback
    /\ op.state0 = "pending"
    /\ Len(trace) = 3
    /\ trace[1].kind = "on_event"
    /\ trace[1].arg = "subscribed"
    /\ trace[1].state = "subscribed"
    /\ trace[2].kind = "connection.send"

\* C20: handling a confirm_subscription frame with N queued messages ends,
\* the flush loop having handed over at most N message frames, whatever the
\* on_event callback calls on the subscription.
C20_ConfirmTerminates ==
    ( /\ ReceivedType("confirm_subscription")
      /\ \A i \in 1..Len(op.queue0) : op.queue0[i] \in Messages )
    => /\ ~Hung
       /\ Len(FlushFrames(trace)) <= Len(op.queue0)

====
